---- MODULE Spec2Model ----
(***************************************************************************)
(* Campaign dispatch and delivery-receipt reconciliation of the Mini CRM   *)
(* server (server/routes/campaigns.js, server/routes/vendor.js,            *)
(* server/routes/segments.js, server/routes/customers.js,                  *)
(* server/utils/segmentUtils.js, server/database/schema.sql).              *)
(*                                                                         *)
(* The state is the MySQL tables the handlers read and write, plus the     *)
(* position and locals of every asynchronous function that is suspended    *)
(* at an `await`.  One action is one stretch of handler code between two   *)
(* awaits together with the single SQL statement it issues, which is the   *)
(* granularity at which Node interleaves requests.                         *)
(***************************************************************************)
EXTENDS Integers, Sequences, FiniteSets, TLC

\* ------------------------------------------------------------------ bounds
MaxCustomerId == 2
MaxSegmentId == 1
\* Campaigns created in Spec, and in SpecTwo.
MaxCampaignId == 1
MaxCampaignIdTwo == 2
\* sendCampaignMessages calls in progress at once.
MaxRunning == 1
\* Receipt requests in progress at once in Spec, and receipt requests the
\* vendor makes in all in Spec and in SpecTwo.
NumHandlers == 2
MaxReceipts == 2
MaxReceiptsTwo == 1
MaxTime == 2
MaxSentWrites == 2
\* Segment requests in progress at once in SpecSegments.
NumRequests == 2
\* nesting depth of the composites of the compiler's rule trees
MaxDepth == 2

NULL == "NULL"

Min(a, b) == IF a <= b THEN a ELSE b

\* ------------------------------------------------------- rule trees, §3
\* JSON values of a request body: a number, a string, or an object.
Num(n) == [t |-> "num", n |-> n]
Str(s) == [t |-> "str", s |-> s]
Obj(o) == [t |-> "obj", o |-> o]
Date(d) == [t |-> "date", n |-> d]
NaN == [t |-> "NaN"]
undefined == [t |-> "undefined"]
SqlNull == [t |-> "null"]
JsonNull == [t |-> "null"]

\* Rule trees a request body can carry.  A leaf is {field, operator, value},
\* a composite is {operator: AND|OR, conditions: [...]}.
RuleCatalog ==
  <<
    \* 1: status = active
    [field |-> "status", operator |-> "equals", value |-> Str("active")],
    \* 2: status = active AND total_spent > 10000
    [operator |-> "AND",
     conditions |-> << [field |-> "status", operator |-> "equals", value |-> Str("active")],
                       [field |-> "total_spent", operator |-> "greater_than", value |-> Num(10000)] >>],
    \* 3: a leaf whose operator is not in the table of its field
    [field |-> "status", operator |-> "greater_than", value |-> Str("active")]
  >>

RuleIds == DOMAIN RuleCatalog

\* JSON.stringify on write and JSON.parse on read of segments.rules: the
\* catalogue holds only JSON values, on which the round trip is the identity,
\* so a stored rule is kept as its catalogue index.
RuleTree(r) == RuleCatalog[r]

\* ------------------------------------------- buildSegmentQuery, processRule
\* The compiled text is kept as a sequence of tokens: "(" and ")" of a
\* composite, " AND " / " OR " between its children, and one token per leaf
\* comparison.  Empty is the empty string ''.
Empty == << >>

\* Compiled without the params.push of the values.
CompiledNoPush(sql, params) == [sql |-> sql, params |-> << >>]

Compiled(sql, params) == [sql |-> sql, params |-> params]

\* parseFloat / parseInt of a JSON value: a number parses to itself (the
\* catalogue's numbers are integers), anything that is not numeric to NaN.
parseFloat(v) == IF v.t = "num" THEN v ELSE NaN

parseInt(v) == IF v.t = "num" THEN v ELSE NaN

\* value.min, value.start, ...: a property read of a JSON value.
Prop(v, k) == IF v.t = "obj" /\ k \in DOMAIN v.o THEN v.o[k] ELSE undefined

\* The per-field operator switch of a leaf.
LeafCondition(rule) ==
  LET f == rule.field
      o == rule.operator
      v == rule.value
  IN
  CASE f = "total_spent" /\ o = "greater_than" -> Compiled(<<"total_spent > ?">>, <<parseFloat(v)>>)
    [] f = "total_spent" /\ o = "less_than"    -> Compiled(<<"total_spent < ?">>, <<parseFloat(v)>>)
    [] f = "total_spent" /\ o = "equals"       -> Compiled(<<"total_spent = ?">>, <<parseFloat(v)>>)
    [] f = "total_spent" /\ o = "between"      ->
         Compiled(<<"total_spent BETWEEN ? AND ?">>,
                  <<parseFloat(Prop(v, "min")), parseFloat(Prop(v, "max"))>>)
    [] f = "total_orders" /\ o = "greater_than" -> Compiled(<<"total_orders > ?">>, <<parseInt(v)>>)
    [] f = "total_orders" /\ o = "less_than"    -> Compiled(<<"total_orders < ?">>, <<parseInt(v)>>)
    [] f = "total_orders" /\ o = "equals"       -> Compiled(<<"total_orders = ?">>, <<parseInt(v)>>)
    [] f = "last_visit" /\ o = "days_ago"    ->
         Compiled(<<"last_visit < DATE_SUB(NOW(), INTERVAL ? DAY)">>, <<parseInt(v)>>)
    [] f = "last_visit" /\ o = "within_days" ->
         Compiled(<<"last_visit >= DATE_SUB(NOW(), INTERVAL ? DAY)">>, <<parseInt(v)>>)
    [] f = "last_visit" /\ o = "is_null"     -> Compiled(<<"last_visit IS NULL">>, << >>)
    [] f = "status" /\ o = "equals"     -> Compiled(<<"status = ?">>, <<v>>)
    [] f = "status" /\ o = "not_equals" -> Compiled(<<"status != ?">>, <<v>>)
    [] f = "registration_date" /\ o = "after"   -> Compiled(<<"registration_date > ?">>, <<v>>)
    [] f = "registration_date" /\ o = "before"  -> Compiled(<<"registration_date < ?">>, <<v>>)
    [] f = "registration_date" /\ o = "between" ->
         Compiled(<<"registration_date BETWEEN ? AND ?">>, <<Prop(v, "start"), Prop(v, "end")>>)
    [] OTHER -> Compiled(Empty, << >>)

IsComposite(rule) == "operator" \in DOMAIN rule /\ rule.operator \in {"AND", "OR"}

RECURSIVE processRule(_)
RECURSIVE JoinConditions(_, _, _)
RECURSIVE JoinConditionsAnd(_, _, _)
RECURSIVE processRuleAlwaysParens(_)
RECURSIVE JoinConditionsUnshift(_, _, _)

\* JoinConditions with the values of a child put in front of those already
\* collected (params.unshift for params.push).
JoinConditionsUnshift(conditions, operator, acc) ==
  IF conditions = << >> THEN acc
  ELSE LET c == processRule(Head(conditions))
           sep == IF acc.sql = Empty \/ c.sql = Empty THEN << >> ELSE << " " \o operator \o " " >>
       IN JoinConditionsUnshift(Tail(conditions), operator,
                                Compiled(acc.sql \o sep \o c.sql, c.params \o acc.params))

\* JoinConditions that joins with AND whatever the composite's operator is.
JoinConditionsAnd(conditions, operator, acc) ==
  IF conditions = << >> THEN acc
  ELSE LET c == processRule(Head(conditions))
           sep == IF acc.sql = Empty \/ c.sql = Empty THEN << >> ELSE << " AND " >>
       IN JoinConditionsAnd(Tail(conditions), operator,
                            Compiled(acc.sql \o sep \o c.sql, acc.params \o c.params))

\* rule.conditions.map(processRule).filter(Boolean).join(` ${operator} `),
\* with the parameters pushed in the order the children are visited.
JoinConditions(conditions, operator, acc) ==
  IF conditions = << >> THEN acc
  ELSE LET c == processRule(Head(conditions))
           sep == IF acc.sql = Empty \/ c.sql = Empty THEN << >> ELSE << " " \o operator \o " " >>
       IN JoinConditions(Tail(conditions), operator,
                         Compiled(acc.sql \o sep \o c.sql, acc.params \o c.params))

\* processRule that wraps the joined conditions in parentheses without
\* looking at conditions.length.
processRuleAlwaysParens(rule) ==
  IF IsComposite(rule)
  THEN LET j == JoinConditions(rule.conditions, rule.operator, Compiled(Empty, << >>))
       IN Compiled(<<"(">> \o j.sql \o <<")">>, j.params)
  ELSE IF ~("field" \in DOMAIN rule /\ "operator" \in DOMAIN rule /\ "value" \in DOMAIN rule
            /\ rule.value # undefined)
       THEN Compiled(Empty, << >>)
       ELSE LeafCondition(rule)

processRule(rule) ==
  IF IsComposite(rule)
  THEN LET j == JoinConditions(rule.conditions, rule.operator, Compiled(Empty, << >>))
       IN IF j.sql # Empty THEN Compiled(<<"(">> \o j.sql \o <<")">>, j.params)
                           ELSE Compiled(Empty, j.params)
  ELSE IF ~("field" \in DOMAIN rule /\ "operator" \in DOMAIN rule /\ "value" \in DOMAIN rule
            /\ rule.value # undefined)
       THEN Compiled(Empty, << >>)
       ELSE LeafCondition(rule)

\* buildSegmentQuery whose params array is not emptied on entry and still
\* holds the values of the call before, on the same rules.
buildSegmentQueryKeptParams(rules) ==
  LET c == processRule(rules) IN [query |-> c.sql, params |-> c.params \o c.params]

buildSegmentQuery(rules) ==
  LET c == processRule(rules) IN [query |-> c.sql, params |-> c.params]

\* ------------------- buildSegmentQuery, processRule of routes/segments.js
\* The segments routes compile with a function of their own, declared in
\* routes/segments.js; sendCampaignMessages uses the one of
\* utils/segmentUtils.js above.
\* The per-field operator switch of a leaf.
routeLeafCondition(rule) ==
  LET f == rule.field
      o == rule.operator
      v == rule.value
  IN
  CASE f = "total_spent" /\ o = "greater_than" -> Compiled(<<"total_spent > ?">>, <<parseFloat(v)>>)
    [] f = "total_spent" /\ o = "less_than"    -> Compiled(<<"total_spent < ?">>, <<parseFloat(v)>>)
    [] f = "total_spent" /\ o = "equals"       -> Compiled(<<"total_spent = ?">>, <<parseFloat(v)>>)
    [] f = "total_spent" /\ o = "between"      ->
         Compiled(<<"total_spent BETWEEN ? AND ?">>,
                  <<parseFloat(Prop(v, "min")), parseFloat(Prop(v, "max"))>>)
    [] f = "total_orders" /\ o = "greater_than" -> Compiled(<<"total_orders > ?">>, <<parseInt(v)>>)
    [] f = "total_orders" /\ o = "less_than"    -> Compiled(<<"total_orders < ?">>, <<parseInt(v)>>)
    [] f = "total_orders" /\ o = "equals"       -> Compiled(<<"total_orders = ?">>, <<parseInt(v)>>)
    [] f = "last_visit" /\ o = "days_ago"    ->
         Compiled(<<"last_visit < DATE_SUB(NOW(), INTERVAL ? DAY)">>, <<parseInt(v)>>)
    [] f = "last_visit" /\ o = "within_days" ->
         Compiled(<<"last_visit >= DATE_SUB(NOW(), INTERVAL ? DAY)">>, <<parseInt(v)>>)
    [] f = "last_visit" /\ o = "is_null"     -> Compiled(<<"last_visit IS NULL">>, << >>)
    [] f = "status" /\ o = "equals"     -> Compiled(<<"status = ?">>, <<v>>)
    [] f = "status" /\ o = "not_equals" -> Compiled(<<"status != ?">>, <<v>>)
    [] f = "registration_date" /\ o = "after"   -> Compiled(<<"registration_date > ?">>, <<v>>)
    [] f = "registration_date" /\ o = "before"  -> Compiled(<<"registration_date < ?">>, <<v>>)
    [] f = "registration_date" /\ o = "between" ->
         Compiled(<<"registration_date BETWEEN ? AND ?">>, <<Prop(v, "start"), Prop(v, "end")>>)
    [] OTHER -> Compiled(Empty, << >>)

RECURSIVE routeProcessRule(_)
RECURSIVE routeJoinConditions(_, _, _)

\* rule.conditions.map(processRule).filter(Boolean).join(` ${operator} `)
routeJoinConditions(conditions, operator, acc) ==
  IF conditions = << >> THEN acc
  ELSE LET c == routeProcessRule(Head(conditions))
           sep == IF acc.sql = Empty \/ c.sql = Empty THEN << >> ELSE << " " \o operator \o " " >>
       IN routeJoinConditions(Tail(conditions), operator,
                         Compiled(acc.sql \o sep \o c.sql, acc.params \o c.params))

routeProcessRule(rule) ==
  IF IsComposite(rule)
  THEN LET j == routeJoinConditions(rule.conditions, rule.operator, Compiled(Empty, << >>))
       IN IF j.sql # Empty THEN Compiled(<<"(">> \o j.sql \o <<")">>, j.params)
                           ELSE Compiled(Empty, j.params)
  ELSE IF ~("field" \in DOMAIN rule /\ "operator" \in DOMAIN rule /\ "value" \in DOMAIN rule
            /\ rule.value # undefined)
       THEN Compiled(Empty, << >>)
       ELSE routeLeafCondition(rule)

routeBuildSegmentQuery(rules) ==
  LET c == routeProcessRule(rules) IN [query |-> c.sql, params |-> c.params]

RECURSIVE Throws(_)
\* buildSegmentQuery does not return: a `between` case reads value.min or
\* value.start of a value that is null (TypeError); the children before the
\* leaf have been visited, those after it are not.
Throws(rule) ==
  IF IsComposite(rule)
  THEN \E i \in DOMAIN rule.conditions : Throws(rule.conditions[i])
  ELSE /\ "field" \in DOMAIN rule /\ "operator" \in DOMAIN rule /\ "value" \in DOMAIN rule
       /\ rule.field \in {"total_spent", "registration_date"}
       /\ rule.operator = "between"
       /\ rule.value = JsonNull

\* ------------------------------------ SELECT ... FROM customers WHERE <query>
\* The number of `?` in one leaf token.
Placeholders(token) ==
  CASE token \in {"total_spent BETWEEN ? AND ?", "registration_date BETWEEN ? AND ?"} -> 2
    [] token = "last_visit IS NULL" -> 0
    [] OTHER -> 1

\* MySQL's value of one comparison on one customers row at time `at`, with
\* ps the parameters bound to its placeholders.  A comparison with NULL or
\* with a value of the wrong kind is not true.
LeafHolds(token, ps, row, at) ==
  LET num(i) == ps[i].t = "num"
      str(i) == ps[i].t = "str"
      date(i) == ps[i].t = "date"
  IN
  CASE token = "total_spent > ?" -> num(1) /\ row.total_spent > ps[1].n
    [] token = "total_spent < ?" -> num(1) /\ row.total_spent < ps[1].n
    [] token = "total_spent = ?" -> num(1) /\ row.total_spent = ps[1].n
    [] token = "total_spent BETWEEN ? AND ?" ->
         num(1) /\ num(2) /\ row.total_spent >= ps[1].n /\ row.total_spent <= ps[2].n
    [] token = "total_orders > ?" -> num(1) /\ row.total_orders > ps[1].n
    [] token = "total_orders < ?" -> num(1) /\ row.total_orders < ps[1].n
    [] token = "total_orders = ?" -> num(1) /\ row.total_orders = ps[1].n
    [] token = "last_visit < DATE_SUB(NOW(), INTERVAL ? DAY)" ->
         num(1) /\ row.last_visit.t = "date" /\ row.last_visit.n < at - ps[1].n
    [] token = "last_visit >= DATE_SUB(NOW(), INTERVAL ? DAY)" ->
         num(1) /\ row.last_visit.t = "date" /\ row.last_visit.n >= at - ps[1].n
    [] token = "last_visit IS NULL" -> row.last_visit.t = "null"
    [] token = "status = ?" -> str(1) /\ row.status = ps[1].s
    [] token = "status != ?" -> str(1) /\ row.status # ps[1].s
    [] token = "registration_date > ?" -> date(1) /\ row.registration_date.n > ps[1].n
    [] token = "registration_date < ?" -> date(1) /\ row.registration_date.n < ps[1].n
    [] token = "registration_date BETWEEN ? AND ?" ->
         date(1) /\ date(2) /\ row.registration_date.n >= ps[1].n
                 /\ row.registration_date.n <= ps[2].n
    [] OTHER -> FALSE

RECURSIVE EvalExpr(_, _, _, _, _)
RECURSIVE EvalGroup(_, _, _, _, _, _)

\* Evaluates the expression that starts at token i with the parameters from
\* position k on; returns its value and the positions after it.
EvalExpr(sql, params, i, k, env) ==
  IF sql[i] = "("
  THEN LET first == EvalExpr(sql, params, i + 1, k, env)
       IN EvalGroup(sql, params, first.i, first.k, first.v, env)
  ELSE LET n == Placeholders(sql[i])
       IN [v |-> LeafHolds(sql[i], SubSeq(params, k, k + n - 1), env.row, env.at),
           i |-> i + 1, k |-> k + n]

\* The rest of a parenthesised group after a child: ")" or an operator and
\* the next child.
EvalGroup(sql, params, i, k, acc, env) ==
  IF sql[i] = ")" THEN [v |-> acc, i |-> i + 1, k |-> k]
  ELSE LET next == EvalExpr(sql, params, i + 1, k, env)
           v == IF sql[i] = " AND " THEN acc /\ next.v ELSE acc \/ next.v
       IN EvalGroup(sql, params, next.i, next.k, v, env)

\* Whether one customers row satisfies WHERE <query> with params bound.
Where(query, params, row, at) ==
  EvalExpr(query, params, 1, 1, [row |-> row, at |-> at]).v

\* ------------------------------------------------------------------ state
VARIABLES
  customers,          \* table customers: id -> row
  segments,           \* table segments: id -> [rules, audience_size]
  campaigns,          \* table campaigns: id -> [segment_id, status, sent_at, sent_writes]
  communication_log,  \* table communication_log: id -> [campaign_id, customer_id, status, failure_reason]
  autoIncrement,      \* next AUTO_INCREMENT id of each table
  dispatch,           \* running sendCampaignMessages calls: campaign id -> locals
  handlers,           \* in-flight POST /delivery-receipt requests
  receipts,           \* number of receipt requests the vendor has made so far
  now,                \* the server clock, CURRENT_TIMESTAMP / NOW(), in days
  decimalNumbers,     \* pool option: SUM() comes back as a number, not a string
  requests            \* in-flight POST / PUT /api/segments and /preview requests

vars == << customers, segments, campaigns, communication_log, autoIncrement,
           dispatch, handlers, receipts, now, decimalNumbers, requests >>

tables == << customers, segments, campaigns, communication_log, autoIncrement >>

\* The first sample row of schema.sql (customer 1), dates relative to day 1.
SampleCustomers ==
  << [status |-> "active", total_spent |-> 15000, total_orders |-> 8,
      last_visit |-> Date(-30), registration_date |-> Date(-350)] >>

\* Bodies POST /api/customers is called with (sample rows 2 and 5).
CustomerBodies ==
  { [status |-> "active", total_spent |-> 8500, total_orders |-> 5,
     last_visit |-> Date(-33), registration_date |-> Date(-314)],
    [status |-> "churned", total_spent |-> 5000, total_orders |-> 3,
     last_visit |-> SqlNull, registration_date |-> Date(-340)] }

MessageIds == 1 .. (MaxCampaignIdTwo * MaxCustomerId)

\* Status values a receipt body carries; "bounced" stands for any value
\* that is neither 'delivered' nor 'failed'.
ReceiptStatuses == {"delivered", "failed", "bounced"}

\* failure_reason of a receipt body: absent, or a reason of the vendor.
ReceiptReasons == {NULL}

\* Whether the pool hands DECIMAL columns over as numbers: the option
\* decimalNumbers of the pool that config/database.js creates.
PoolOptions == BOOLEAN

\* A segment request slot that serves no request and has answered none.
NoRequest == [pc |-> "idle", route |-> NULL, id |-> 0, rules |-> undefined, audienceSize |-> 0,
              response |-> 0, sampleCustomers |-> << >>]

Idle == [pc |-> "idle", message_id |-> 0, status |-> NULL, failure_reason |-> NULL,
         campaign_id |-> 0]

Init ==
  /\ customers = [i \in DOMAIN SampleCustomers |-> SampleCustomers[i]]
  /\ segments = << >>
  /\ campaigns = << >>
  /\ communication_log = << >>
  /\ autoIncrement = [customers |-> Len(SampleCustomers) + 1, segments |-> 1,
                      campaigns |-> 1, communication_log |-> 1]
  /\ dispatch = << >>
  /\ handlers = [h \in 1 .. NumHandlers |-> Idle]
  /\ receipts = 0
  /\ now = 1
  /\ decimalNumbers \in PoolOptions
  /\ requests = [h \in 1 .. NumRequests |-> NoRequest]

\* ------------------------------------------------------------ SQL helpers
\* INSERT of one row under the table's next AUTO_INCREMENT id.
Insert(table, id, row) == [i \in DOMAIN table \cup {id} |-> IF i = id THEN row ELSE table[i]]

\* DELETE of the rows whose id is in ids.
Delete(table, ids) == [i \in DOMAIN table \ ids |-> table[i]]

\* Ascending sequence of a finite set of ids (the primary-key scan order).
RECURSIVE SortedSeq(_)
SortedSeq(S) ==
  IF S = {} THEN << >>
  ELSE LET m == CHOOSE x \in S : \A y \in S : x <= y
       IN << m >> \o SortedSeq(S \ {m})

\* SELECT * FROM customers WHERE <query>: the ids of the matching rows.
Matching(q, custs, at) == { i \in DOMAIN custs : Where(q.query, q.params, custs[i], at) }

\* SELECT COUNT(*) FROM customers WHERE <query>
CountMatching(q, custs, at) == Cardinality(Matching(q, custs, at))

\* ON DELETE CASCADE of the foreign keys of campaigns and communication_log:
\* the tables after the cascades from the segments and customers that are left.
CascadeCampaigns(camps, segs) == Delete(camps, { c \in DOMAIN camps : camps[c].segment_id \notin DOMAIN segs })

CascadeLog(log, camps, custs) ==
  Delete(log, { m \in DOMAIN log : log[m].campaign_id \notin DOMAIN camps
                                   \/ log[m].customer_id \notin DOMAIN custs })

\* Messages of one campaign, and those of them in one of the statuses.
MessagesOf(log, c) == { m \in DOMAIN log : log[m].campaign_id = c }

MessagesIn(log, c, statuses) == { m \in MessagesOf(log, c) : log[m].status \in statuses }

\* ------------------------------------------- customers and segments routes
\* POST /api/customers
CreateCustomer(body) ==
  /\ autoIncrement.customers <= MaxCustomerId
  /\ customers' = Insert(customers, autoIncrement.customers, body)
  /\ autoIncrement' = [autoIncrement EXCEPT !.customers = @ + 1]
  /\ UNCHANGED << segments, campaigns, communication_log, dispatch, handlers, receipts, now, decimalNumbers, requests >>

\* DELETE /api/customers/:id
DeleteCustomer(id) ==
  /\ id \in DOMAIN customers
  /\ customers' = Delete(customers, {id})
  /\ communication_log' = CascadeLog(communication_log, campaigns, customers')
  /\ UNCHANGED << segments, campaigns, autoIncrement, dispatch, handlers, receipts, now, decimalNumbers, requests >>

\* POST /api/segments, served with no other statement between its COUNT
\* query and its INSERT.  The COUNT query writes nothing, so the campaigns
\* and messages of the specifications that use this action do not depend on
\* where it falls; SegmentRequest, SegmentCount and SegmentWrite below are
\* the same request await by await.
CreateSegment(r) ==
  LET q == routeBuildSegmentQuery(RuleTree(r)) IN
  /\ autoIncrement.segments <= MaxSegmentId
  /\ IF q.query = Empty
     THEN UNCHANGED << segments, autoIncrement >>
     ELSE /\ segments' = Insert(segments, autoIncrement.segments,
                                [rules |-> r, audience_size |-> CountMatching(q, customers, now)])
          /\ autoIncrement' = [autoIncrement EXCEPT !.segments = @ + 1]
  /\ UNCHANGED << customers, campaigns, communication_log, dispatch, handlers, receipts, now, decimalNumbers, requests >>

\* PUT /api/segments/:id
UpdateSegment(id, r) ==
  LET q == routeBuildSegmentQuery(RuleTree(r)) IN
  /\ id \in DOMAIN segments
  /\ IF q.query = Empty
     THEN UNCHANGED segments
     ELSE segments' = [segments EXCEPT ![id] =
                         [rules |-> r, audience_size |-> CountMatching(q, customers, now)]]
  /\ UNCHANGED << customers, campaigns, communication_log, autoIncrement, dispatch, handlers,
                  receipts, now, decimalNumbers, requests >>

\* DELETE /api/segments/:id
DeleteSegment(id) ==
  /\ id \in DOMAIN segments
  /\ segments' = Delete(segments, {id})
  /\ campaigns' = CascadeCampaigns(campaigns, segments')
  /\ communication_log' = CascadeLog(communication_log, campaigns', customers)
  /\ UNCHANGED << customers, autoIncrement, dispatch, handlers, receipts, now, decimalNumbers, requests >>

\* PUT /api/customers/:id
UpdateCustomer(id, body) ==
  /\ id \in DOMAIN customers
  /\ customers' = [customers EXCEPT ![id] = body]
  /\ UNCHANGED << segments, campaigns, communication_log, autoIncrement, dispatch, handlers,
                  receipts, now, decimalNumbers, requests >>

\* ------------------------------------- segment requests, await by await
\* LIMIT 10 of the preview's sample query.
SampleLimit == 10

\* JSON.stringify(value.rules): the stored text, kept as the catalogue index
\* that JSON.parse (RuleTree) takes back to the tree.
JSONstringify(rules) == CHOOSE r \in DOMAIN RuleCatalog : RuleCatalog[r] = rules

\* InvalidOnlyMissing: Invalid without the test of the compiled text.
InvalidOnlyMissing(rules) == rules = undefined

\* !whereClause, and for the preview also !rules
Invalid(rules) == rules = undefined \/ routeBuildSegmentQuery(rules).query = Empty

\* A customers query with the rules' predicate is executed: storage is
\* available (ok), the text after WHERE is an expression (`WHERE ` alone is a
\* syntax error) and no bound value is undefined, which pool.execute refuses;
\* both reject like a storage failure.
Accepted(rules, ok) ==
  LET q == routeBuildSegmentQuery(rules) IN
  /\ ok
  /\ q.query # Empty
  /\ \A i \in DOMAIN q.params : q.params[i] # undefined

\* res.status(response).json(...): the slot is free again and keeps what was
\* answered.
Responded(r, response) == [r EXCEPT !.pc = "idle", !.response = response]

\* SegmentRow with audienceSize a variable of the module, which the request
\* that counted last has set, instead of a local of the handler.
SegmentRowShared(reqs, h) ==
  LET last == CHOOSE g \in DOMAIN reqs :
                /\ reqs[g].pc = "write"
                /\ \A f \in DOMAIN reqs : reqs[f].pc = "write" => f <= g
  IN [rules |-> JSONstringify(reqs[h].rules), audience_size |-> reqs[last].audienceSize]

\* The values of the INSERT / UPDATE of segments that request h issues.
SegmentRow(reqs, h) ==
  [rules |-> JSONstringify(reqs[h].rules), audience_size |-> reqs[h].audienceSize]

\* The segment rows the requests in progress are about to insert.
Creating(reqs) == { h \in DOMAIN reqs : reqs[h].pc # "idle" /\ reqs[h].route = "create" }

\* A request arrives at POST /api/segments (route "create"), PUT
\* /api/segments/:id ("update") or POST /api/segments/preview ("preview")
\* and runs to its first await: rules on which buildSegmentQuery throws are
\* answered 500 by the catch, rules that compile to '' are answered 400,
\* otherwise the COUNT query is issued.
SegmentRequest(h, route, id, rules, maxId) ==
  /\ requests[h].pc = "idle"
  /\ \A g \in 1 .. h - 1 : requests[g].pc # "idle"
  /\ route = "create" => autoIncrement.segments + Cardinality(Creating(requests)) <= maxId
  /\ LET r == [pc |-> "count", route |-> route, id |-> id, rules |-> rules, audienceSize |-> 0,
               response |-> 0, sampleCustomers |-> << >>]
     IN requests' = [requests EXCEPT ![h] =
          IF rules # undefined /\ Throws(rules) THEN Responded(r, 500)
          ELSE IF Invalid(rules) THEN Responded(r, 400)
          ELSE r]
  /\ UNCHANGED << tables, dispatch, handlers, receipts, now, decimalNumbers >>

\* `SELECT COUNT(*) as count FROM customers WHERE ${whereClause}` returns;
\* the INSERT or UPDATE of the segment, or the preview's sample query, is issued.
SegmentCount(h, ok) ==
  LET r == requests[h] IN
  /\ r.pc = "count"
  /\ requests' = [requests EXCEPT ![h] =
       IF Accepted(r.rules, ok)
       THEN [r EXCEPT !.pc = IF r.route = "preview" THEN "sample" ELSE "write",
                      !.audienceSize = CountMatching(routeBuildSegmentQuery(r.rules), customers, now)]
       ELSE Responded(r, 500)]
  /\ UNCHANGED << tables, dispatch, handlers, receipts, now, decimalNumbers >>

\* The INSERT INTO segments or the UPDATE segments ... WHERE id = ? returns
\* (the row is read back for the answer); an UPDATE that hit no row is
\* answered 404.
SegmentWrite(h, ok) ==
  LET r == requests[h] IN
  /\ r.pc = "write"
  /\ IF ~ok
     THEN /\ requests' = [requests EXCEPT ![h] = Responded(r, 500)]
          /\ UNCHANGED << segments, autoIncrement >>
     ELSE IF r.route = "create"
     THEN /\ segments' = Insert(segments, autoIncrement.segments, SegmentRow(requests, h))
          /\ autoIncrement' = [autoIncrement EXCEPT !.segments = @ + 1]
          /\ requests' = [requests EXCEPT ![h] = Responded(r, 201)]
     ELSE IF r.id \in DOMAIN segments
     THEN /\ segments' = [segments EXCEPT ![r.id] = SegmentRow(requests, h)]
          /\ requests' = [requests EXCEPT ![h] = Responded(r, 200)]
          /\ UNCHANGED autoIncrement
     ELSE /\ requests' = [requests EXCEPT ![h] = Responded(r, 404)]
          /\ UNCHANGED << segments, autoIncrement >>
  /\ UNCHANGED << customers, campaigns, communication_log, dispatch, handlers, receipts, now,
                  decimalNumbers >>

\* `SELECT id, ... FROM customers WHERE ${whereClause} LIMIT 10` returns and
\* the preview is answered with audienceSize and sampleCustomers.
PreviewSample(h, ok) ==
  LET r == requests[h]
      found == SortedSeq(Matching(routeBuildSegmentQuery(r.rules), customers, now))
  IN
  /\ r.pc = "sample"
  /\ requests' = [requests EXCEPT ![h] =
       IF Accepted(r.rules, ok)
       THEN Responded([r EXCEPT !.sampleCustomers = SubSeq(found, 1, Min(Len(found), SampleLimit))],
                      200)
       ELSE Responded(r, 500)]
  /\ UNCHANGED << tables, dispatch, handlers, receipts, now, decimalNumbers >>

\* ------------------------------------------------------- campaigns routes
\* UPDATE campaigns SET status = "sent", sent_at = CURRENT_TIMESTAMP WHERE id = c.
\* sent_writes counts the executions of this statement that hit the row; it
\* is not a column, it records the history the claims speak about.
MarkSent(camps, c, at) ==
  IF c \in DOMAIN camps
  THEN [camps EXCEPT ![c].status = "sent", ![c].sent_at = at,
                     ![c].sent_writes = Min(@ + 1, MaxSentWrites)]
  ELSE camps

\* MarkFailed with the UPDATE left out of the failure handler.
MarkFailedSkip(camps, c) == camps

\* UPDATE campaigns SET status = "failed" WHERE id = c
MarkFailed(camps, c) ==
  IF c \in DOMAIN camps THEN [camps EXCEPT ![c].status = "failed"] ELSE camps

\* SetStatus writing the outcome as a new row instead of updating row m.
SetStatusInsert(log, m, status) ==
  IF m \in DOMAIN log
  THEN LET id == CHOOSE i \in 1 .. Cardinality(DOMAIN log) + 1 : i \notin DOMAIN log
       IN Insert(log, id, [log[m] EXCEPT !.status = status])
  ELSE log

\* UPDATE communication_log SET status = ..., failure_reason = ... WHERE id = m.
\* No statement of the program puts a condition on the current status.
SetStatus(log, m, status) ==
  IF m \in DOMAIN log THEN [log EXCEPT ![m].status = status] ELSE log

\* SetFailed with WHERE campaign_id = (that of m) instead of WHERE id = m.
SetFailedCampaign(log, m, reason) ==
  IF m \in DOMAIN log
  THEN [i \in DOMAIN log |->
          IF log[i].campaign_id = log[m].campaign_id
          THEN [log[i] EXCEPT !.status = "failed", !.failure_reason = reason]
          ELSE log[i]]
  ELSE log

\* UPDATE communication_log SET status = 'failed', failure_reason = ? WHERE id = m
SetFailed(log, m, reason) ==
  IF m \in DOMAIN log
  THEN [log EXCEPT ![m].status = "failed", ![m].failure_reason = reason]
  ELSE log

\* The sendCampaignMessages calls that have not settled.
Running(d) == { c \in DOMAIN d : d[c].pc \notin {"resolved", "rejected", "rejectedInCatch"} }

\* CreateCampaign whose INSERT leaves status to the column's DEFAULT 'draft'.
CreateCampaignDefault(segment_id, maxId) ==
  LET id == autoIncrement.campaigns IN
  /\ id <= maxId
  /\ Cardinality(Running(dispatch)) < MaxRunning
  /\ segment_id \in DOMAIN segments
  /\ campaigns' = Insert(campaigns, id,
                         [segment_id |-> segment_id, status |-> "draft", sent_at |-> 0,
                          sent_writes |-> 0])
  /\ autoIncrement' = [autoIncrement EXCEPT !.campaigns = @ + 1]
  /\ dispatch' = Insert(dispatch, id,
                        [pc |-> "segment", segmentId |-> segment_id, rules |-> 0,
                         customers |-> << >>, communicationLogs |-> << >>, k |-> 0])
  /\ UNCHANGED << customers, segments, communication_log, handlers, receipts, now, decimalNumbers, requests >>

\* POST /api/campaigns: the segment is looked up, the campaign row is
\* inserted in status 'sending' and sendCampaignMessages is started, which
\* runs up to its first await (the segment query is on its way).
CreateCampaign(segment_id, maxId) ==
  LET id == autoIncrement.campaigns IN
  /\ id <= maxId
  /\ Cardinality(Running(dispatch)) < MaxRunning
  /\ segment_id \in DOMAIN segments
  /\ campaigns' = Insert(campaigns, id,
                         [segment_id |-> segment_id, status |-> "sending", sent_at |-> 0,
                          sent_writes |-> 0])
  /\ autoIncrement' = [autoIncrement EXCEPT !.campaigns = @ + 1]
  /\ dispatch' = Insert(dispatch, id,
                        [pc |-> "segment", segmentId |-> segment_id, rules |-> 0,
                         customers |-> << >>, communicationLogs |-> << >>, k |-> 0])
  /\ UNCHANGED << customers, segments, communication_log, handlers, receipts, now, decimalNumbers, requests >>

\* DeleteCampaign without the condition on the status.
DeleteCampaignAny(id) ==
  /\ id \in DOMAIN campaigns
  /\ campaigns' = Delete(campaigns, {id})
  /\ communication_log' = CascadeLog(communication_log, campaigns', customers)
  /\ UNCHANGED << customers, segments, autoIncrement, dispatch, handlers, receipts, now, decimalNumbers, requests >>

\* DELETE /api/campaigns/:id deletes the row only WHERE status = "draft".
DeleteCampaign(id) ==
  /\ id \in DOMAIN campaigns
  /\ campaigns' = Delete(campaigns, { c \in {id} : campaigns[c].status = "draft" })
  /\ communication_log' = CascadeLog(communication_log, campaigns', customers)
  /\ UNCHANGED << customers, segments, autoIncrement, dispatch, handlers, receipts, now, decimalNumbers, requests >>

\* ---------------------------------------------------- sendCampaignMessages
\* Every step takes ok: whether the awaited pool.execute resolves (TRUE) or
\* rejects because storage is unavailable (FALSE).
\* The locals of a call that has left the try block or has settled are not
\* read again, only campaignId is; likewise segmentId after the segment
\* query and rules after the customers query.
Settled(pc) == [pc |-> pc, segmentId |-> 0, rules |-> 0, customers |-> << >>,
                communicationLogs |-> << >>, k |-> 0]

Goto(c, pc) == dispatch' = [dispatch EXCEPT ![c] = Settled(pc)]

\* 'SELECT rules FROM segments WHERE id = ?' returns; the rules are parsed.
DispatchSegment(c, ok) ==
  /\ c \in DOMAIN dispatch /\ dispatch[c].pc = "segment"
  /\ IF ok /\ dispatch[c].segmentId \in DOMAIN segments
     THEN dispatch' = [dispatch EXCEPT ![c].pc = "customers",
                                       ![c].segmentId = 0,
                                       ![c].rules = segments[dispatch[c].segmentId].rules]
     ELSE Goto(c, "catch")
  /\ UNCHANGED << tables, handlers, receipts, now, decimalNumbers, requests >>

\* DispatchCustomers sending to no more customers than the audience_size the
\* segment row holds.
DispatchCustomersCached(c, ok) ==
  LET q == buildSegmentQuery(RuleTree(dispatch[c].rules))
      all == SortedSeq(Matching(q, customers, now))
      cached == IF c \in DOMAIN campaigns
                THEN segments[campaigns[c].segment_id].audience_size ELSE 0
      found == SubSeq(all, 1, Min(Len(all), cached))
  IN
  /\ c \in DOMAIN dispatch /\ dispatch[c].pc = "customers"
  /\ IF ok /\ q.query # Empty
     THEN dispatch' = [dispatch EXCEPT ![c].pc = IF found = << >> THEN "finish" ELSE "insert",
                                       ![c].rules = 0,
                                       ![c].customers = found,
                                       ![c].k = IF found = << >> THEN 0 ELSE 1]
     ELSE Goto(c, "catch")
  /\ UNCHANGED << tables, handlers, receipts, now, decimalNumbers, requests >>

\* `SELECT * FROM customers WHERE ${whereClause}` returns; the first INSERT is
\* issued, or with no customer both loops are skipped and the final UPDATE is.
DispatchCustomers(c, ok) ==
  LET q == buildSegmentQuery(RuleTree(dispatch[c].rules))
      found == SortedSeq(Matching(q, customers, now))
  IN
  /\ c \in DOMAIN dispatch /\ dispatch[c].pc = "customers"
  /\ IF ok /\ q.query # Empty
     THEN dispatch' = [dispatch EXCEPT ![c].pc = IF found = << >> THEN "finish" ELSE "insert",
                                       ![c].rules = 0,
                                       ![c].customers = found,
                                       ![c].k = IF found = << >> THEN 0 ELSE 1]
     ELSE Goto(c, "catch")
  /\ UNCHANGED << tables, handlers, receipts, now, decimalNumbers, requests >>

\* LastCustomer leaving the loop one customer early.
LastCustomerEarly(d) == d.k >= Len(d.customers) - 1

\* for (const customer of customers): the k-th customer is the last.
LastCustomer(d) == d.k = Len(d.customers)

\* INSERT INTO communication_log (...) VALUES (?, ?, ?, 'pending') for the
\* k-th customer.  The foreign keys reject the row when the campaign or the
\* customer is gone.
DispatchInsert(c, ok) ==
  LET d == dispatch[c]
      customer == d.customers[d.k]
      id == autoIncrement.communication_log
  IN
  /\ c \in DOMAIN dispatch /\ dispatch[c].pc = "insert"
  /\ IF ok /\ c \in DOMAIN campaigns /\ customer \in DOMAIN customers
     THEN /\ communication_log' = Insert(communication_log, id,
                                         [campaign_id |-> c, customer_id |-> customer,
                                          status |-> "pending", failure_reason |-> NULL])
          /\ autoIncrement' = [autoIncrement EXCEPT !.communication_log = @ + 1]
          /\ dispatch' = [dispatch EXCEPT ![c] =
                            IF LastCustomer(d)
                            THEN [d EXCEPT !.pc = "send", !.k = 1,
                                           !.communicationLogs = Append(@, id)]
                            ELSE [d EXCEPT !.k = d.k + 1,
                                           !.communicationLogs = Append(@, id)]]
     ELSE /\ Goto(c, "catch")
          /\ UNCHANGED << communication_log, autoIncrement >>
  /\ UNCHANGED << customers, segments, campaigns, handlers, receipts, now, decimalNumbers, requests >>

\* AfterSend leaving the loop after the first message written.
AfterSendStop(d) == [d EXCEPT !.pc = "finish"]

\* The loop position after the k-th message has been written.
AfterSend(d) ==
  [d EXCEPT !.pc = IF d.k = Len(d.communicationLogs) THEN "finish" ELSE "send",
            !.k = IF d.k = Len(d.communicationLogs) THEN d.k ELSE d.k + 1]

\* One iteration of the send loop: the simulated vendor call succeeds or not
\* (Math.random() > 0.1) and the UPDATE of the message is awaited.
DispatchSend(c, success, ok) ==
  LET d == dispatch[c]
      id == d.communicationLogs[d.k]
  IN
  /\ c \in DOMAIN dispatch /\ dispatch[c].pc = "send"
  /\ IF ok
     THEN /\ communication_log' = IF success THEN SetStatus(communication_log, id, "sent")
                                             ELSE SetFailed(communication_log, id, "Vendor API error")
          /\ dispatch' = [dispatch EXCEPT ![c] = AfterSend(d)]
     ELSE /\ dispatch' = [dispatch EXCEPT ![c].pc = "sendCatch"]
          /\ UNCHANGED communication_log
  /\ UNCHANGED << customers, segments, campaigns, autoIncrement, handlers, receipts, now, decimalNumbers, requests >>

\* The catch of one iteration: UPDATE ... status = 'failed', failure_reason =
\* error.message.  When this statement rejects too, the outer catch runs.
DispatchSendCatch(c, ok) ==
  LET d == dispatch[c]
      id == d.communicationLogs[d.k]
  IN
  /\ c \in DOMAIN dispatch /\ dispatch[c].pc = "sendCatch"
  /\ IF ok
     THEN /\ communication_log' = SetFailed(communication_log, id, "error.message")
          /\ dispatch' = [dispatch EXCEPT ![c] = AfterSend(d)]
     ELSE /\ Goto(c, "catch")
          /\ UNCHANGED communication_log
  /\ UNCHANGED << customers, segments, campaigns, autoIncrement, handlers, receipts, now, decimalNumbers, requests >>

\* After the send loop: 'UPDATE campaigns SET status = "sent", sent_at = ...'
DispatchFinish(c, ok) ==
  /\ c \in DOMAIN dispatch /\ dispatch[c].pc = "finish"
  /\ IF ok
     THEN /\ campaigns' = MarkSent(campaigns, c, now)
          /\ Goto(c, "resolved")
     ELSE /\ Goto(c, "catch")
          /\ UNCHANGED campaigns
  /\ UNCHANGED << customers, segments, communication_log, autoIncrement, handlers, receipts,
                  now, decimalNumbers, requests >>

\* The outer catch: 'UPDATE campaigns SET status = "failed"', then rethrow.
\* When the UPDATE itself rejects, the call rejects with that error instead.
DispatchCatch(c, ok) ==
  /\ c \in DOMAIN dispatch /\ dispatch[c].pc = "catch"
  /\ campaigns' = IF ok THEN MarkFailed(campaigns, c) ELSE campaigns
  /\ Goto(c, IF ok THEN "rejected" ELSE "rejectedInCatch")
  /\ UNCHANGED << customers, segments, communication_log, autoIncrement, handlers, receipts,
                  now, decimalNumbers, requests >>

\* ------------------------------------------- POST /api/vendor/delivery-receipt
\* SELECT COUNT(*) as total, SUM(CASE WHEN status IN ('sent', 'delivered',
\* 'failed') THEN 1 ELSE 0 END) as processed ... WHERE campaign_id = c
CampaignStats(log, c) ==
  [total |-> Cardinality(MessagesOf(log, c)),
   processed |-> Cardinality(MessagesIn(log, c, {"sent", "delivered", "failed"}))]

\* stats.processed === stats.total && stats.total > 0.  COUNT(*) reaches the
\* handler as a number; SUM() is a DECIMAL, which the driver hands over as a
\* number only when the pool sets decimalNumbers and as a string otherwise,
\* and a string is never === a number.
AllProcessed(stats, decimals) ==
  decimals /\ stats.processed = stats.total /\ stats.total > 0

\* failure_reason || 'Unknown error'
OrUnknown(reason) == IF reason = NULL THEN "Unknown error" ELSE reason

\* ApplyStatus with WHERE campaign_id = log.campaign_id for WHERE id = ?.
ApplyStatusCampaign(log, m, status, reason) ==
  IF m \notin DOMAIN log \/ status \notin {"delivered", "failed"} THEN log
  ELSE [x \in DOMAIN log |->
          IF log[x].campaign_id = log[m].campaign_id THEN [log[x] EXCEPT !.status = status]
          ELSE log[x]]

\* The UPDATE of the message a receipt asks for.
ApplyStatus(log, m, status, reason) ==
  CASE status = "delivered" -> SetStatus(log, m, "delivered")
    [] status = "failed" -> SetFailed(log, m, OrUnknown(reason))
    [] OTHER -> log

\* A request past the UPDATE of its message: of its locals only
\* log.campaign_id is read from here on.
Counting(campaign_id) == [Idle EXCEPT !.pc = "count", !.campaign_id = campaign_id]

\* The request arrives (the vendor has made fewer than maxReceipts so far;
\* of the idle handlers the first serves it) and
\* 'SELECT * FROM communication_log WHERE id = ?' returns: 404 when there is no such row, 500 when storage is unavailable,
\* otherwise the UPDATE of the message is issued (or, for a status that is
\* neither 'delivered' nor 'failed', directly the aggregate query).
ReceiptLookup(h, message_id, status, failure_reason, ok, maxReceipts) ==
  /\ handlers[h].pc = "idle"
  /\ \A g \in 1 .. h - 1 : handlers[g].pc # "idle"
  /\ receipts < maxReceipts
  /\ receipts' = receipts + 1
  /\ IF ok /\ message_id \in DOMAIN communication_log
     THEN handlers' = [handlers EXCEPT ![h] =
                         IF status \in {"delivered", "failed"}
                         THEN [pc |-> "update", message_id |-> message_id, status |-> status,
                               failure_reason |-> failure_reason,
                               campaign_id |-> communication_log[message_id].campaign_id]
                         ELSE Counting(communication_log[message_id].campaign_id)]
     ELSE UNCHANGED handlers
  /\ UNCHANGED << tables, dispatch, now, decimalNumbers, requests >>

\* The UPDATE of the message returns; the aggregate query is issued.
ReceiptUpdate(h, ok) ==
  LET r == handlers[h] IN
  /\ r.pc = "update"
  /\ IF ok
     THEN /\ communication_log' = ApplyStatus(communication_log, r.message_id, r.status,
                                              r.failure_reason)
          /\ handlers' = [handlers EXCEPT ![h] = Counting(r.campaign_id)]
     ELSE /\ handlers' = [handlers EXCEPT ![h] = Idle]
          /\ UNCHANGED communication_log
  /\ UNCHANGED << customers, segments, campaigns, autoIncrement, dispatch, receipts, now, decimalNumbers, requests >>

\* The aggregate query returns; when all messages are processed the UPDATE of
\* the campaign is issued, otherwise the request is answered.
ReceiptCount(h, ok) ==
  LET r == handlers[h] IN
  /\ r.pc = "count"
  /\ handlers' = [handlers EXCEPT ![h] =
                    IF ok /\ AllProcessed(CampaignStats(communication_log, r.campaign_id),
                                          decimalNumbers)
                    THEN [r EXCEPT !.pc = "write"]
                    ELSE Idle]
  /\ UNCHANGED << tables, dispatch, receipts, now, decimalNumbers, requests >>

\* 'UPDATE campaigns SET status = "sent", sent_at = CURRENT_TIMESTAMP' returns.
ReceiptWrite(h, ok) ==
  LET r == handlers[h] IN
  /\ r.pc = "write"
  /\ campaigns' = IF ok THEN MarkSent(campaigns, r.campaign_id, now) ELSE campaigns
  /\ handlers' = [handlers EXCEPT ![h] = Idle]
  /\ UNCHANGED << customers, segments, communication_log, autoIncrement, dispatch, receipts,
                  now, decimalNumbers, requests >>

\* One request served with no other statement in between, at time `at`: the
\* tables [log, campaigns] it leaves.  The steps are those of ReceiptLookup,
\* ReceiptUpdate, ReceiptCount and ReceiptWrite with every statement resolving.
ReceiptRun(db, message_id, status, failure_reason, at, decimals) ==
  IF message_id \notin DOMAIN db.log THEN db
  ELSE LET campaign_id == db.log[message_id].campaign_id
           log == ApplyStatus(db.log, message_id, status, failure_reason)
       IN [log |-> log,
           campaigns |-> IF AllProcessed(CampaignStats(log, campaign_id), decimals)
                         THEN MarkSent(db.campaigns, campaign_id, at)
                         ELSE db.campaigns]

\* ------------------------------------------------------------------ clock
Tick ==
  /\ now < MaxTime
  /\ now' = now + 1
  /\ UNCHANGED << tables, dispatch, handlers, receipts, decimalNumbers, requests >>

\* ---------------------------------------------------------- specification
\* The steps of the running sendCampaignMessages calls.
Dispatch ==
  \/ \E c \in DOMAIN dispatch, ok \in BOOLEAN : DispatchSegment(c, ok)
  \/ \E c \in DOMAIN dispatch, ok \in BOOLEAN : DispatchCustomers(c, ok)
  \/ \E c \in DOMAIN dispatch, ok \in BOOLEAN : DispatchInsert(c, ok)
  \/ \E c \in DOMAIN dispatch, success \in BOOLEAN, ok \in BOOLEAN : DispatchSend(c, success, ok)
  \/ \E c \in DOMAIN dispatch, ok \in BOOLEAN : DispatchSendCatch(c, ok)
  \/ \E c \in DOMAIN dispatch, ok \in BOOLEAN : DispatchFinish(c, ok)
  \/ \E c \in DOMAIN dispatch, ok \in BOOLEAN : DispatchCatch(c, ok)

\* The steps of the delivery-receipt requests served by the handlers H.
Receipts(H, maxReceipts) ==
  \/ \E h \in H, m \in MessageIds, st \in ReceiptStatuses, fr \in ReceiptReasons,
        ok \in BOOLEAN : ReceiptLookup(h, m, st, fr, ok, maxReceipts)
  \/ \E h \in H, ok \in BOOLEAN : ReceiptUpdate(h, ok)
  \/ \E h \in H, ok \in BOOLEAN : ReceiptCount(h, ok)
  \/ \E h \in H, ok \in BOOLEAN : ReceiptWrite(h, ok)

\* Spec: every route, one campaign, NumHandlers receipts in progress at once.
Next ==
  \/ \E body \in CustomerBodies : CreateCustomer(body)
  \/ \E id \in 1 .. MaxCustomerId : DeleteCustomer(id)
  \/ \E r \in RuleIds : CreateSegment(r)
  \/ \E id \in 1 .. MaxSegmentId, r \in RuleIds : UpdateSegment(id, r)
  \/ \E id \in 1 .. MaxSegmentId : DeleteSegment(id)
  \/ \E s \in 1 .. MaxSegmentId : CreateCampaign(s, MaxCampaignId)
  \/ \E id \in 1 .. MaxCampaignId : DeleteCampaign(id)
  \/ Dispatch
  \/ Receipts(1 .. NumHandlers, MaxReceipts)
  \/ Tick

Spec == Init /\ [][Next]_vars

\* SpecTwo: several campaigns one after another, also on one segment, with
\* the routes that insert or update rows and one receipt request.
NextTwo ==
  \/ \E body \in CustomerBodies : CreateCustomer(body)
  \/ \E r \in RuleIds : CreateSegment(r)
  \/ \E id \in 1 .. MaxSegmentId, r \in RuleIds : UpdateSegment(id, r)
  \/ \E s \in 1 .. MaxSegmentId : CreateCampaign(s, MaxCampaignIdTwo)
  \/ Dispatch
  \/ Receipts({1}, MaxReceiptsTwo)

SpecTwo == Init /\ [][NextTwo]_vars

\* The steps of the segment requests served by the slots H, with the rule
\* trees of Bodies.
SegmentRequests(H, Bodies, maxId) ==
  \/ \E h \in H, route \in {"create", "update", "preview"}, id \in 1 .. maxId, rules \in Bodies :
       SegmentRequest(h, route, IF route = "update" THEN id ELSE 0, rules, maxId)
  \/ \E h \in H, ok \in BOOLEAN : SegmentCount(h, ok)
  \/ \E h \in H, ok \in BOOLEAN : SegmentWrite(h, ok)
  \/ \E h \in H, ok \in BOOLEAN : PreviewSample(h, ok)

\* SpecSegments: the customers and segments routes, with NumRequests segment
\* requests in progress at once.
NextSegments ==
  \/ \E body \in CustomerBodies : CreateCustomer(body)
  \/ \E id \in 1 .. MaxCustomerId, body \in CustomerBodies : UpdateCustomer(id, body)
  \/ \E id \in 1 .. MaxCustomerId : DeleteCustomer(id)
  \/ \E id \in 1 .. MaxSegmentId : DeleteSegment(id)
  \/ SegmentRequests(1 .. NumRequests, { RuleTree(r) : r \in RuleIds } \cup {undefined},
                     MaxSegmentId)

SpecSegments == Init /\ [][NextSegments]_vars

\* SpecAudience: the customers and segments change while one campaign is
\* dispatched; no delivery receipt arrives.
NextAudience ==
  \/ \E body \in CustomerBodies : CreateCustomer(body)
  \/ \E id \in 1 .. MaxCustomerId, body \in CustomerBodies : UpdateCustomer(id, body)
  \/ \E id \in 1 .. MaxCustomerId : DeleteCustomer(id)
  \/ \E r \in RuleIds : CreateSegment(r)
  \/ \E id \in 1 .. MaxSegmentId, r \in RuleIds : UpdateSegment(id, r)
  \/ \E s \in 1 .. MaxSegmentId : CreateCampaign(s, MaxCampaignId)
  \/ Dispatch

SpecAudience == Init /\ [][NextAudience]_vars

\* The next step of sendCampaignMessages call c, whose awaited statement
\* resolves or rejects; the UPDATE of the failure handler resolves.
DispatchStep(c) ==
  \/ \E ok \in BOOLEAN : DispatchSegment(c, ok)
  \/ \E ok \in BOOLEAN : DispatchCustomers(c, ok)
  \/ \E ok \in BOOLEAN : DispatchInsert(c, ok)
  \/ \E success \in BOOLEAN, ok \in BOOLEAN : DispatchSend(c, success, ok)
  \/ \E ok \in BOOLEAN : DispatchSendCatch(c, ok)
  \/ \E ok \in BOOLEAN : DispatchFinish(c, ok)
  \/ DispatchCatch(c, TRUE)

\* SpecLive: one campaign is dispatched while customers and the segment are
\* created and deleted and at most one delivery receipt is served.  Every
\* pool.execute a running sendCampaignMessages call awaits settles, so the
\* call's next step is taken (weak fairness); requests of clients need not
\* arrive.
NextLive ==
  \/ \E body \in CustomerBodies : CreateCustomer(body)
  \/ \E id \in 1 .. MaxCustomerId : DeleteCustomer(id)
  \/ \E r \in RuleIds : CreateSegment(r)
  \/ \E id \in 1 .. MaxSegmentId : DeleteSegment(id)
  \/ \E s \in 1 .. MaxSegmentId : CreateCampaign(s, MaxCampaignId)
  \/ \E c \in 1 .. MaxCampaignId : DispatchStep(c)
  \/ Receipts({1}, MaxReceiptsTwo)

SpecLive ==
  /\ Init
  /\ [][NextLive]_vars
  /\ \A c \in 1 .. MaxCampaignId : WF_vars(DispatchStep(c))

\* ------------------------------------------- the resolver on rule trees
\* The customers table the previews of SpecCompile are resolved against:
\* three customers of known status and total_spent, and two with
\* total_spent 1500 and 2500.
FixtureCustomers ==
  << [status |-> "active", total_spent |-> 15000, total_orders |-> 8,
      last_visit |-> Date(-30), registration_date |-> Date(-350)],
     [status |-> "active", total_spent |-> 5000, total_orders |-> 5,
      last_visit |-> Date(-33), registration_date |-> Date(-314)],
     [status |-> "churned", total_spent |-> 20000, total_orders |-> 3,
      last_visit |-> SqlNull, registration_date |-> Date(-340)],
     [status |-> "inactive", total_spent |-> 1500, total_orders |-> 1,
      last_visit |-> Date(-2), registration_date |-> Date(-100)],
     [status |-> "inactive", total_spent |-> 2500, total_orders |-> 2,
      last_visit |-> SqlNull, registration_date |-> Date(-20)] >>

Leaf(f, o, v) == [field |-> f, operator |-> o, value |-> v]

BetweenSpent == Leaf("total_spent", "between", Obj([min |-> Num(1000), max |-> Num(2000)]))

\* Leaves of request bodies: every pair of the operator table with values of
\* its shape, a pair that is not in the table, values of another shape, and
\* leaves without a value.
Leaves ==
  { Leaf("total_spent", o, v) : o \in {"greater_than", "less_than", "equals"},
                                v \in {Num(2500), Num(10000)} }
  \cup { Leaf("total_orders", o, Num(3)) : o \in {"greater_than", "less_than", "equals"} }
  \cup { Leaf("last_visit", o, Num(31)) : o \in {"days_ago", "within_days"} }
  \cup { Leaf("status", o, v) : o \in {"equals", "not_equals"}, v \in {Str("active"), Str("churned")} }
  \cup { Leaf("registration_date", o, Date(-340)) : o \in {"after", "before"} }
  \cup { BetweenSpent,
         Leaf("registration_date", "between", Obj([start |-> Date(-340), end |-> Date(-100)])),
         Leaf("last_visit", "is_null", Str("true")),
         Leaf("status", "greater_than", Str("active")),
         Leaf("total_spent", "between", Num(1000)),
         Leaf("total_spent", "greater_than", Str("high")),
         Leaf("total_spent", "between", Obj([min |-> Num(1000)])),
         Leaf("total_spent", "between", JsonNull),
         Leaf("registration_date", "between", Obj([start |-> Date(-340)])),
         [field |-> "last_visit", operator |-> "is_null"],
         [field |-> "status", operator |-> "equals"] }

\* Leaves the nested composites are built from: two of the table and one
\* that compiles to ''.
CoreLeaves ==
  { Leaf("status", "equals", Str("active")), Leaf("total_spent", "greater_than", Num(10000)),
    Leaf("status", "greater_than", Str("active")) }

\* The AND and OR composites of no condition, of one tree of sub, and of a
\* leaf of CoreLeaves and a tree of sub in either order.
Composites(sub) ==
  { [operator |-> op, conditions |-> cs] :
      op \in {"AND", "OR"},
      cs \in {<< >>} \cup { <<a>> : a \in sub }
              \cup { <<a, b>> : a \in CoreLeaves, b \in sub }
              \cup { <<b, a>> : a \in CoreLeaves, b \in sub } }

RECURSIVE CoreTrees(_)
\* The trees of depth d at most over CoreLeaves.
CoreTrees(d) ==
  IF d = 0 THEN CoreLeaves ELSE LET sub == CoreTrees(d - 1) IN sub \cup Composites(sub)

\* The AND and OR composites of three leaves of CoreLeaves.
Triples ==
  { [operator |-> op, conditions |-> <<a, b, c>>] :
      op \in {"AND", "OR"}, a \in CoreLeaves, b \in CoreLeaves, c \in CoreLeaves }

\* Rule trees of the preview requests of SpecCompile.
Trees == Leaves \cup Composites(Leaves) \cup Triples \cup CoreTrees(MaxDepth)

InitCompile ==
  /\ customers = FixtureCustomers
  /\ segments = << >>
  /\ campaigns = << >>
  /\ communication_log = << >>
  /\ autoIncrement = [customers |-> Len(FixtureCustomers) + 1, segments |-> 1,
                      campaigns |-> 1, communication_log |-> 1]
  /\ dispatch = << >>
  /\ handlers = [h \in 1 .. NumHandlers |-> Idle]
  /\ receipts = 0
  /\ now = 1
  /\ decimalNumbers \in PoolOptions
  /\ requests = [h \in 1 .. NumRequests |-> NoRequest]

\* SpecCompile: one preview request at a time over the rule trees of Trees,
\* against the fixture customers.
NextCompile ==
  \/ \E rules \in Trees : SegmentRequest(1, "preview", 0, rules, MaxSegmentId)
  \/ \E ok \in BOOLEAN : SegmentCount(1, ok)
  \/ \E ok \in BOOLEAN : PreviewSample(1, ok)

SpecCompile == InitCompile /\ [][NextCompile]_vars

\* ---------------------------------------------- meaning of a rule tree
\* The field / operator pairs of the operator table.
OperatorTable ==
  { <<"total_spent", "greater_than">>, <<"total_spent", "less_than">>,
    <<"total_spent", "equals">>, <<"total_spent", "between">>,
    <<"total_orders", "greater_than">>, <<"total_orders", "less_than">>,
    <<"total_orders", "equals">>,
    <<"last_visit", "days_ago">>, <<"last_visit", "within_days">>, <<"last_visit", "is_null">>,
    <<"status", "equals">>, <<"status", "not_equals">>,
    <<"registration_date", "after">>, <<"registration_date", "before">>,
    <<"registration_date", "between">> }

\* The value of a leaf has the shape its field and operator ask for.
ValueFits(f, o, v) ==
  CASE f = "total_spent" /\ o = "between" ->
         /\ v.t = "obj" /\ {"min", "max"} \subseteq DOMAIN v.o
         /\ v.o["min"].t = "num" /\ v.o["max"].t = "num"
    [] f = "registration_date" /\ o = "between" ->
         /\ v.t = "obj" /\ {"start", "end"} \subseteq DOMAIN v.o
         /\ v.o["start"].t = "date" /\ v.o["end"].t = "date"
    [] f = "last_visit" /\ o = "is_null" -> v.t # "undefined"
    [] f \in {"total_spent", "total_orders", "last_visit"} -> v.t = "num"
    [] f = "status" -> v.t = "str"
    [] f = "registration_date" -> v.t = "date"
    [] OTHER -> FALSE

RECURSIVE ValidTree(_)
\* A rule tree all of whose leaves are in the operator table with a fitting
\* value and all of whose composites have a condition.
ValidTree(rule) ==
  IF IsComposite(rule)
  THEN /\ rule.conditions # << >>
       /\ \A i \in DOMAIN rule.conditions : ValidTree(rule.conditions[i])
  ELSE /\ {"field", "operator", "value"} \subseteq DOMAIN rule
       /\ <<rule.field, rule.operator>> \in OperatorTable
       /\ ValueFits(rule.field, rule.operator, rule.value)

\* Whether a customers row satisfies a leaf of a valid tree at time `at`.
LeafSatisfied(rule, row, at) ==
  LET f == rule.field
      o == rule.operator
      v == rule.value
      x == IF f = "total_spent" THEN row.total_spent ELSE row.total_orders
  IN
  CASE f \in {"total_spent", "total_orders"} /\ o = "greater_than" -> x > v.n
    [] f \in {"total_spent", "total_orders"} /\ o = "less_than" -> x < v.n
    [] f \in {"total_spent", "total_orders"} /\ o = "equals" -> x = v.n
    [] f = "total_spent" /\ o = "between" -> v.o["min"].n <= x /\ x <= v.o["max"].n
    [] f = "last_visit" /\ o = "is_null" -> row.last_visit.t = "null"
    [] f = "last_visit" /\ o = "days_ago" ->
         row.last_visit.t = "date" /\ row.last_visit.n < at - v.n
    [] f = "last_visit" /\ o = "within_days" ->
         row.last_visit.t = "date" /\ row.last_visit.n >= at - v.n
    [] f = "status" /\ o = "equals" -> row.status = v.s
    [] f = "status" /\ o = "not_equals" -> row.status # v.s
    [] f = "registration_date" /\ o = "after" -> row.registration_date.n > v.n
    [] f = "registration_date" /\ o = "before" -> row.registration_date.n < v.n
    [] f = "registration_date" /\ o = "between" ->
         v.o["start"].n <= row.registration_date.n /\ row.registration_date.n <= v.o["end"].n

RECURSIVE Satisfies(_, _, _)
\* Whether a customers row satisfies a valid rule tree: AND is all of the
\* conditions, OR is one of them.
Satisfies(rule, row, at) ==
  IF IsComposite(rule)
  THEN IF rule.operator = "AND"
       THEN \A i \in DOMAIN rule.conditions : Satisfies(rule.conditions[i], row, at)
       ELSE \E i \in DOMAIN rule.conditions : Satisfies(rule.conditions[i], row, at)
  ELSE LeafSatisfied(rule, row, at)

\* The customers of a table that satisfy a valid rule tree.
Audience(rule, custs, at) == { i \in DOMAIN custs : Satisfies(rule, custs[i], at) }

\* The elements of a sequence.
Range(seq) == { seq[i] : i \in DOMAIN seq }

\* ------------------------------------------------------------------ claims
\* The message ids sendCampaignMessages call c has created so far.
Created(c) == { dispatch[c].communicationLogs[i] : i \in 1 .. Len(dispatch[c].communicationLogs) }

\* The tables a delivery receipt reads and writes.
Tables == [log |-> communication_log, campaigns |-> campaigns]

\* C1: for every campaign the write that sets status 'sent' and stamps sent_at
\* is executed at most once, however the steps of dispatch and of receipt
\* requests interleave.
C1_SentWrittenOnce ==
  \A c \in DOMAIN campaigns : campaigns[c].sent_writes <= 1

\* C2: serving the same delivery receipt (same message, same outcome) twice in
\* a row leaves, the second time, the message rows, and the campaign's status
\* and sent_at, as the first time left them.
C2_SameReceiptTwice ==
  \A m \in DOMAIN communication_log, st \in {"delivered", "failed"}, fr \in ReceiptReasons,
     at \in now .. MaxTime :
    LET once == ReceiptRun(Tables, m, st, fr, now, decimalNumbers)
        twice == ReceiptRun(once, m, st, fr, at, decimalNumbers)
        c == communication_log[m].campaign_id
    IN /\ twice.log = once.log
       /\ twice.campaigns[c].status = once.campaigns[c].status
       /\ twice.campaigns[c].sent_at = once.campaigns[c].sent_at

\* C3: the UPDATE a delivery receipt makes changes the status of a message
\* only when that status is 'sent'.
C3_ReceiptOnlyMovesSent ==
  [][\A h \in DOMAIN handlers :
       (handlers[h].pc = "update" /\ handlers'[h] # handlers[h]) =>
         \A m \in DOMAIN communication_log \cap DOMAIN communication_log' :
           communication_log'[m].status # communication_log[m].status =>
             communication_log[m].status = "sent"]_vars

\* C4: the status of a message only moves forward: once it is not 'pending' it
\* is never 'pending' again, and once it is 'delivered' or 'failed' it is never
\* 'sent' or 'pending' again.
C4_StatusMonotonic ==
  [][\A m \in DOMAIN communication_log \cap DOMAIN communication_log' :
       /\ communication_log[m].status # "pending" =>
            communication_log'[m].status # "pending"
       /\ communication_log[m].status \in {"delivered", "failed"} =>
            communication_log'[m].status \notin {"sent", "pending"}]_vars

\* C5 as stated: at the step that completes the send loop of a dispatch that
\* created N message rows, the campaign has exactly N messages, none is
\* 'pending', and those in 'sent' plus those in 'failed' are N.
C5_SentPlusFailedIsN ==
  [][\A c \in DOMAIN dispatch :
       (dispatch[c].pc # "finish" /\ dispatch'[c].pc = "finish") =>
         LET N == Len(dispatch'[c].communicationLogs) IN
         /\ Cardinality(MessagesOf(communication_log', c)) = N
         /\ MessagesIn(communication_log', c, {"pending"}) = {}
         /\ Cardinality(MessagesIn(communication_log', c, {"sent"}))
              + Cardinality(MessagesIn(communication_log', c, {"failed"})) = N]_vars

\* C5 amended: at the step that completes the send loop of a dispatch that
\* created N message rows, the campaign's messages are the created rows that
\* no cascade has removed (so at most N, and N when none was removed), none is
\* 'pending', and those in 'sent', 'failed' or 'delivered' are all of them.
C5_NonePendingAtCompletion ==
  [][\A c \in DOMAIN dispatch :
       (dispatch[c].pc # "finish" /\ dispatch'[c].pc = "finish") =>
         LET logs == dispatch'[c].communicationLogs
             created == { logs[i] : i \in 1 .. Len(logs) }
             kept == MessagesOf(communication_log', c)
         IN
         /\ kept = created \cap DOMAIN communication_log'
         /\ Cardinality(kept) <= Len(logs)
         /\ created \subseteq DOMAIN communication_log' => Cardinality(kept) = Len(logs)
         /\ MessagesIn(communication_log', c, {"pending"}) = {}
         /\ MessagesIn(communication_log', c, {"sent", "failed", "delivered"}) = kept]_vars

\* A send loop over two messages has completed and a receipt has already
\* moved one of them to 'delivered'.
C5_Witness ==
  \E c \in DOMAIN dispatch :
    /\ dispatch[c].pc = "finish"
    /\ Len(dispatch[c].communicationLogs) = 2
    /\ Cardinality(MessagesOf(communication_log, c)) = 2
    /\ MessagesIn(communication_log, c, {"delivered"}) # {}

\* C6: dispatch never writes status 'sent'; only the handling of a delivery
\* receipt does, so while no receipt has arrived no campaign is 'sent'.
C6_OnlyReceiptsMarkSent ==
  receipts = 0 => \A c \in DOMAIN campaigns : campaigns[c].status # "sent"

\* C7: a step of the send loop that records a failed send of a message (the
\* provider rejected it, or the attempt threw) gives that message a failure
\* reason, changes no other message and no campaign, and moves the loop on to
\* the next message, or past the loop when it was the last.
C7_FailureDoesNotStopLoop ==
  [][\A c \in DOMAIN dispatch :
       LET d == dispatch[c]
           e == dispatch'[c]
       IN (d.pc \in {"send", "sendCatch"} /\ e # d) =>
            LET id == d.communicationLogs[d.k] IN
            (/\ id \in DOMAIN communication_log
             /\ communication_log'[id] # communication_log[id]
             /\ communication_log'[id].status = "failed") =>
               /\ communication_log'[id].failure_reason # NULL
               /\ DOMAIN communication_log' = DOMAIN communication_log
               /\ \A m \in DOMAIN communication_log \ {id} :
                    communication_log'[m] = communication_log[m]
               /\ campaigns' = campaigns
               /\ e.communicationLogs = d.communicationLogs
               /\ IF d.k < Len(d.communicationLogs)
                  THEN e.pc = "send" /\ e.k = d.k + 1
                  ELSE e.pc = "finish"]_vars

\* The first of two messages failed at the provider, the second was sent, and
\* the campaign is still 'sending'.
C7_Witness ==
  \E c \in DOMAIN dispatch \cap DOMAIN campaigns :
    LET logs == dispatch[c].communicationLogs IN
    /\ dispatch[c].pc = "finish"
    /\ Len(logs) = 2
    /\ { logs[1], logs[2] } \subseteq DOMAIN communication_log
    /\ communication_log[logs[1]].status = "failed"
    /\ communication_log[logs[1]].failure_reason \in {"Vendor API error", "error.message"}
    /\ communication_log[logs[2]].status = "sent"
    /\ campaigns[c].status = "sending"

C9_MessagesNeverAdded ==
  [][\A c \in DOMAIN dispatch :
       dispatch[c].pc \notin {"segment", "customers", "insert"} =>
         MessagesOf(communication_log', c) \subseteq MessagesOf(communication_log, c)]_vars

\* Two campaigns on one segment: the second, created after a customer was
\* inserted, has two messages and the first still has its one.
C9_Witness ==
  /\ {1, 2} \subseteq DOMAIN campaigns
  /\ campaigns[1].segment_id = campaigns[2].segment_id
  /\ dispatch[1].pc = "resolved"
  /\ dispatch[2].pc = "resolved"
  /\ Cardinality(MessagesOf(communication_log, 1)) = 1
  /\ Cardinality(MessagesOf(communication_log, 2)) = 2

\* C10 as stated: no step removes a message row.
C10_NoRowRemoved ==
  [][DOMAIN communication_log \subseteq DOMAIN communication_log']_vars

\* C10 amended: a step removes a message row only by deleting the customer
\* the message is for or the segment of the message's campaign.
C10_RemovedOnlyByCascade ==
  [][\A m \in DOMAIN communication_log \ DOMAIN communication_log' :
       \/ communication_log[m].customer_id \notin DOMAIN customers'
       \/ campaigns[communication_log[m].campaign_id].segment_id \notin DOMAIN segments']_vars

\* Of the rows a dispatch created, one has been removed with its customer and
\* another is still there.
C10_Witness ==
  \E c \in DOMAIN dispatch \cap DOMAIN campaigns :
    /\ Created(c) \ DOMAIN communication_log # {}
    /\ Created(c) \cap DOMAIN communication_log # {}

\* C11: a request to create, update or preview a segment whose rules compile
\* to the empty expression is answered 400 in the step it arrives, no table
\* changes in that step, and no request is ever waiting for a customers
\* query or a segment write with such rules.
C11_EmptyRulesRejected ==
  [][\A h \in DOMAIN requests :
       LET r == requests'[h] IN
       /\ (requests[h].pc = "idle" /\ r # requests[h] /\ r.rules # undefined
           /\ processRule(r.rules).sql = Empty) =>
            /\ r.pc = "idle" /\ r.response = 400
            /\ UNCHANGED tables
       /\ r.pc # "idle" => r.rules # undefined /\ processRule(r.rules).sql # Empty]_vars

\* An update of an existing segment with a leaf whose operator its field does
\* not have has been answered 400, and the segment has kept its rules.
C11_Witness ==
  \E h \in DOMAIN requests :
    /\ requests[h].route = "update"
    /\ requests[h].rules = RuleCatalog[3]
    /\ requests[h].response = 400
    /\ requests[h].id \in DOMAIN segments
    /\ segments[requests[h].id].rules # 3

\* The messages of campaign c for customer i in the log.
MessagesFor(log, c, i) == { m \in MessagesOf(log, c) : log[m].customer_id = i }

\* No two messages have the same campaign and the same customer.
NoDuplicates(log) ==
  \A m, n \in DOMAIN log :
    (log[m].campaign_id = log[n].campaign_id /\ log[m].customer_id = log[n].customer_id) => m = n

\* C12 as stated: when sendCampaignMessages resolves, the campaign has exactly
\* one message for every customer its customers query returned and none for
\* any other customer; and the log never holds two messages for one campaign
\* and customer.
C12_OneMessagePerMatched ==
  [][/\ NoDuplicates(communication_log')
     /\ \A c \in DOMAIN dispatch :
          (dispatch[c].pc = "finish" /\ dispatch'[c].pc = "resolved") =>
            LET matched == { dispatch[c].customers[i] : i \in 1 .. Len(dispatch[c].customers) } IN
            /\ \A i \in matched : Cardinality(MessagesFor(communication_log', c, i)) = 1
            /\ \A m \in MessagesOf(communication_log', c) :
                 communication_log'[m].customer_id \in matched]_vars

\* C12 amended: when sendCampaignMessages resolves and the campaign row still
\* exists, the campaign has exactly one message for every customer its
\* customers query returned that is still in the customers table, and none
\* for any other customer; and the log never holds two messages for one
\* campaign and customer.
C12_OneMessagePerMatchedKept ==
  [][/\ NoDuplicates(communication_log')
     /\ \A c \in DOMAIN dispatch :
          (dispatch[c].pc = "finish" /\ dispatch'[c].pc = "resolved") =>
            LET matched == { dispatch[c].customers[i] : i \in 1 .. Len(dispatch[c].customers) } IN
            /\ \A i \in matched :
                 Cardinality(MessagesFor(communication_log', c, i)) =
                   IF i \in DOMAIN customers' /\ c \in DOMAIN campaigns' THEN 1 ELSE 0
            /\ \A m \in MessagesOf(communication_log', c) :
                 communication_log'[m].customer_id \in matched]_vars

\* A dispatch has resolved with a message for the active customer 1 and none
\* for the churned customer 2.
C12_Witness ==
  \E c \in DOMAIN dispatch :
    /\ dispatch[c].pc = "resolved"
    /\ MessagesFor(communication_log, c, 1) # {}
    /\ 2 \in DOMAIN customers /\ customers[2].status = "churned"
    /\ MessagesFor(communication_log, c, 2) = {}

\* C13: sendCampaignMessages compiles the rules the segment row holds when
\* its segment query runs, sends to exactly the customers that satisfy them
\* when its customers query runs, each once, and inserts a message for each of
\* them in turn; the segment's audience_size plays no part.
C13_FreshAudience ==
  [][\A c \in DOMAIN dispatch :
       LET d == dispatch[c]
           e == dispatch'[c]
       IN /\ (d.pc = "segment" /\ e.pc = "customers") =>
               d.segmentId \in DOMAIN segments /\ e.rules = segments[d.segmentId].rules
          /\ (d.pc = "customers" /\ e.pc \in {"insert", "finish"}) =>
               /\ Range(e.customers) = Audience(RuleTree(d.rules), customers, now)
               /\ Len(e.customers) = Cardinality(Range(e.customers))
          /\ (d.pc = "insert" /\ e.pc \in {"insert", "send"} /\ e # d) =>
               \E m \in DOMAIN communication_log' \ DOMAIN communication_log :
                 /\ communication_log'[m].campaign_id = c
                 /\ communication_log'[m].customer_id = d.customers[d.k]]_vars

\* A campaign has two messages while its segment, created when one customer
\* matched, has audience_size 1.
C13_Witness ==
  \E c \in DOMAIN dispatch \cap DOMAIN campaigns :
    /\ dispatch[c].pc = "resolved"
    /\ Cardinality(MessagesOf(communication_log, c)) = 2
    /\ segments[campaigns[c].segment_id].audience_size = 1

\* C14: a segment row is written only by a create or update request, with
\* that request's rules and the count that request's COUNT query returned for
\* those rules, which the request carries unchanged from the query to the
\* write; a step that changes customers changes no segment.
C14_AudienceSizeOfSameRequest ==
  [][/\ customers' # customers => segments' = segments
     /\ \A s \in DOMAIN segments' :
          (s \notin DOMAIN segments \/ segments'[s] # segments[s]) =>
            \E h \in DOMAIN requests :
              /\ requests[h].pc = "write" /\ requests'[h].pc = "idle"
              /\ requests[h].route = "update" => requests[h].id = s
              /\ segments'[s].rules = JSONstringify(requests[h].rules)
              /\ segments'[s].audience_size = requests[h].audienceSize
     /\ \A h \in DOMAIN requests :
          /\ (requests[h].pc = "count" /\ requests'[h].pc = "write") =>
               /\ requests'[h].rules = requests[h].rules
               /\ requests'[h].audienceSize =
                    Cardinality(Audience(requests[h].rules, customers, now))
          /\ (requests[h].pc = "write" /\ requests'[h].pc = "write") =>
               requests'[h] = requests[h]]_vars

\* Two updates of one segment with different rules have both counted, with
\* different counts, and neither has written yet.
C14_Witness ==
  /\ requests[1].pc = "write" /\ requests[2].pc = "write"
  /\ requests[1].route = "update" /\ requests[2].route = "update"
  /\ requests[1].id = requests[2].id
  /\ requests[1].rules # requests[2].rules
  /\ requests[1].audienceSize # requests[2].audienceSize

\* The preview of slot h was answered with a count and a sample.
Previewed(h) ==
  /\ requests[h].pc = "idle" /\ requests[h].route = "preview" /\ requests[h].response = 200

\* C15: the customers a preview resolves for a valid rule tree, and those the
\* query of sendCampaignMessages selects for it, are exactly those that
\* satisfy the tree, AND being all and OR one of the conditions;
\* status equals active AND total_spent greater_than 10000 resolves to {1}
\* over the fixture, and total_spent between 1000 and 2000 to the customer
\* with 1500 and not the one with 2500.
C15_ResolverExact ==
  \A h \in DOMAIN requests :
    Previewed(h) =>
      LET r == requests[h] IN
      /\ ValidTree(r.rules) =>
           /\ Range(r.sampleCustomers) = Audience(r.rules, customers, now)
           /\ r.audienceSize = Cardinality(Audience(r.rules, customers, now))
           /\ Matching(buildSegmentQuery(r.rules), customers, now)
                = Audience(r.rules, customers, now)
      /\ r.rules = RuleTree(2) => Range(r.sampleCustomers) = {1}
      /\ r.rules = BetweenSpent => Range(r.sampleCustomers) = {4}

\* A preview of an OR in an AND was answered: (status = active OR
\* total_spent > 10000) AND status = active.
C15_Witness ==
  /\ Previewed(1)
  /\ requests[1].rules =
       [operator |-> "AND",
        conditions |-> << [operator |-> "OR",
                           conditions |-> << Leaf("status", "equals", Str("active")),
                                             Leaf("total_spent", "greater_than", Num(10000)) >>],
                          Leaf("status", "equals", Str("active")) >>]
  /\ Range(requests[1].sampleCustomers) = {1, 2}

\* C16: a campaign row is 'sending' in the state in which it first exists,
\* and no step leaves a campaign in 'draft' or 'scheduled'.
C16_CreatedSending ==
  [][\A c \in DOMAIN campaigns' :
       /\ c \notin DOMAIN campaigns => campaigns'[c].status = "sending"
       /\ campaigns'[c].status \notin {"draft", "scheduled"}]_vars

\* A campaign has gone through its dispatch and a receipt and still exists.
C16_Witness ==
  \E c \in DOMAIN campaigns :
    /\ c \in DOMAIN dispatch /\ dispatch[c].pc = "resolved"
    /\ receipts > 0
    /\ campaigns[c].status = "sent"

\* C17: a step of a preview request changes no table, and the preview it
\* answers carries at most SampleLimit customers, as many as the smaller of
\* its count and SampleLimit, whatever the customers routes did between its
\* two queries.
C17_PreviewConsistent ==
  [][\A h \in DOMAIN requests :
       (requests'[h] # requests[h] /\ requests'[h].route = "preview") =>
         /\ UNCHANGED tables
         /\ (requests'[h].pc = "idle" /\ requests'[h].response = 200) =>
              /\ Len(requests'[h].sampleCustomers) <= SampleLimit
              /\ Len(requests'[h].sampleCustomers) =
                   Min(requests'[h].audienceSize, SampleLimit)]_vars

\* C18: a message row is 'pending' in the state in which it first exists,
\* and a step of sendCampaignMessages call c that changes the status of a
\* message is a step of its send loop on one of its own messages, taken when
\* the call has created a message for every customer it resolved.
C18_AllPendingBeforeSend ==
  [][/\ \A m \in DOMAIN communication_log' :
          m \notin DOMAIN communication_log => communication_log'[m].status = "pending"
     /\ \A c \in DOMAIN dispatch :
          (c \in DOMAIN dispatch' /\ dispatch'[c] # dispatch[c]) =>
            \A m \in DOMAIN communication_log \cap DOMAIN communication_log' :
              communication_log'[m].status # communication_log[m].status =>
                /\ dispatch[c].pc \in {"send", "sendCatch"}
                /\ m \in Range(dispatch[c].communicationLogs)
                /\ Len(dispatch[c].communicationLogs) = Len(dispatch[c].customers)]_vars

\* The send loop has written the first of two messages and is at the
\* second, which is still 'pending'.
C18_Witness ==
  \E c \in DOMAIN dispatch :
    LET d == dispatch[c] IN
    /\ d.pc = "send" /\ d.k = 2 /\ Len(d.communicationLogs) = 2
    /\ Range(d.communicationLogs) \subseteq DOMAIN communication_log
    /\ communication_log[d.communicationLogs[1]].status \in {"sent", "failed"}
    /\ communication_log[d.communicationLogs[2]].status = "pending"

\* C19: when the aggregate query of a receipt request returns, the request
\* goes on to write 'sent' exactly if the processed messages of the campaign
\* are as many as its messages, and never while one of them is 'pending';
\* the write it then makes leaves the campaign 'sent' with sent_at now.
C19_SentIffAllProcessed ==
  [][\A h \in DOMAIN handlers :
       /\ ReceiptCount(h, TRUE) =>
            LET c == handlers[h].campaign_id
                stats == CampaignStats(communication_log, c)
            IN /\ handlers'[h].pc = "write" <=> stats.processed = stats.total
               /\ MessagesIn(communication_log, c, {"pending"}) # {} => handlers'[h].pc # "write"
       /\ ReceiptWrite(h, TRUE) =>
            LET c == handlers[h].campaign_id
            IN c \in DOMAIN campaigns =>
                 campaigns'[c].status = "sent" /\ campaigns'[c].sent_at = now]_vars

RECURSIVE CountLeaves(_, _)
\* The number of leaves of a rule tree whose operator is one of ops.
CountLeaves(rule, ops) ==
  IF IsComposite(rule)
  THEN LET sum[i \in 0 .. Len(rule.conditions)] ==
             IF i = 0 THEN 0 ELSE sum[i - 1] + CountLeaves(rule.conditions[i], ops)
       IN sum[Len(rule.conditions)]
  ELSE IF rule.operator \in ops THEN 1 ELSE 0

\* The operators of the operator table.
Operators == { p[2] : p \in OperatorTable }

\* The rule trees of the requests on which buildSegmentQuery has returned.
CompiledRules ==
  { rules \in { requests[h].rules : h \in DOMAIN requests } \ {undefined} : ~Throws(rules) }

\* C20 as stated: the parameter list of a valid rule tree has as many
\* values as the tree has leaves.
C20_ParamsPerLeaf ==
  \A rules \in CompiledRules :
    ValidTree(rules) => Len(buildSegmentQuery(rules).params) = CountLeaves(rules, Operators)

\* C20: the parameter list of a valid rule tree has one value for every
\* leaf, a second one for every `between` leaf and none for an `is_null`
\* leaf.
C20_ParamsPerPlaceholder ==
  \A rules \in CompiledRules :
    ValidTree(rules) =>
      Len(buildSegmentQuery(rules).params) =
        CountLeaves(rules, Operators) + CountLeaves(rules, {"between"})
          - CountLeaves(rules, {"is_null"})

\* Previews of status = active AND total_spent BETWEEN 1000 AND 2000, with
\* three parameters for two leaves, and of the single leaf last_visit IS
\* NULL, with none, are in progress or answered.
C20_Witness ==
  \/ /\ requests[1].rules = [operator |-> "AND",
                             conditions |-> << Leaf("status", "equals", Str("active")),
                                               BetweenSpent >>]
     /\ requests[1].pc = "sample"
     /\ Len(buildSegmentQuery(requests[1].rules).params) = 3
  \/ /\ requests[1].rules = Leaf("last_visit", "is_null", Str("true"))
     /\ requests[1].pc = "sample"
     /\ buildSegmentQuery(requests[1].rules).params = << >>

RECURSIVE RetainedLeaves(_)
\* The leaves of a rule tree that compile to a comparison, in the order a
\* depth-first, left-to-right walk meets them.
RetainedLeaves(rule) ==
  IF IsComposite(rule)
  THEN LET all[i \in 0 .. Len(rule.conditions)] ==
             IF i = 0 THEN << >> ELSE all[i - 1] \o RetainedLeaves(rule.conditions[i])
       IN all[Len(rule.conditions)]
  ELSE IF processRule(rule).sql # Empty THEN <<rule>> ELSE << >>

\* The comparisons of a compiled expression, left to right.
IsComparison(token) == token \notin {"(", ")", " AND ", " OR "}

Comparisons(sql) == SelectSeq(sql, IsComparison)

RECURSIVE PlaceholdersBefore(_, _)
\* The number of `?` in the first j comparisons of ts.
PlaceholdersBefore(ts, j) ==
  IF j = 0 THEN 0 ELSE PlaceholdersBefore(ts, j - 1) + Placeholders(ts[j])

\* C21: the comparisons of the compiled expression are those of the retained
\* leaves in depth-first, left-to-right order, and the values at the
\* positions of the `?` of the j-th comparison are the values of the j-th
\* retained leaf; a leaf that compiles to '' has no value in the list.
C21_ParamsInPlaceholderOrder ==
  \A rules \in CompiledRules :
    LET q == buildSegmentQuery(rules)
        leaves == RetainedLeaves(rules)
        ts == Comparisons(q.query)
    IN /\ Len(ts) = Len(leaves)
       /\ Len(q.params) = PlaceholdersBefore(ts, Len(ts))
       /\ \A j \in DOMAIN ts :
            /\ <<ts[j]>> = LeafCondition(leaves[j]).sql
            /\ SubSeq(q.params, PlaceholdersBefore(ts, j - 1) + 1, PlaceholdersBefore(ts, j))
                 = LeafCondition(leaves[j]).params

\* A tree with a dropped leaf between two retained leaves, inside a nested
\* composite, has been compiled: status = active AND (<dropped> OR
\* total_spent > 10000), with the values 'active', 10000 in this order.
C21_Witness ==
  /\ requests[1].pc = "sample"
  /\ requests[1].rules =
       [operator |-> "AND",
        conditions |-> << Leaf("status", "equals", Str("active")),
                          [operator |-> "OR",
                           conditions |-> << Leaf("status", "greater_than", Str("active")),
                                             Leaf("total_spent", "greater_than", Num(10000)) >>] >>]
  /\ buildSegmentQuery(requests[1].rules).params = << Str("active"), Num(10000) >>

RECURSIVE Subtrees(_)
\* A rule tree and the trees below it.
Subtrees(rule) ==
  IF IsComposite(rule)
  THEN {rule} \cup UNION { Subtrees(rule.conditions[i]) : i \in DOMAIN rule.conditions }
  ELSE {rule}

\* The expressions of the children of a composite, in order.
ChildExpressions(rule) == [i \in DOMAIN rule.conditions |-> processRule(rule.conditions[i]).sql]

NotEmpty(sql) == sql # Empty

RECURSIVE Joined(_, _)
\* exprs[1] op exprs[2] op ... for a non-empty sequence of expressions.
Joined(exprs, op) ==
  IF Len(exprs) = 1 THEN exprs[1]
  ELSE Joined(SubSeq(exprs, 1, Len(exprs) - 1), op) \o << " " \o op \o " " >> \o exprs[Len(exprs)]

\* C22: a composite compiles to '' when none of its children compiles to an
\* expression, and otherwise to the expressions of the children that do, in
\* order, with the composite's operator between them and one pair of
\* parentheses around them.
C22_CompositeJoinsSurvivors ==
  \A rules \in CompiledRules : \A rule \in Subtrees(rules) :
    IsComposite(rule) =>
      LET surviving == SelectSeq(ChildExpressions(rule), NotEmpty)
      IN processRule(rule).sql =
           IF surviving = << >> THEN Empty
           ELSE <<"(">> \o Joined(surviving, rule.operator) \o <<")">>

\* A composite whose first child is dropped has been compiled: the other
\* two are joined with OR inside one pair of parentheses.
C22_Witness ==
  /\ requests[1].rules = [operator |-> "OR",
                          conditions |-> << Leaf("status", "greater_than", Str("active")),
                                            Leaf("status", "equals", Str("active")),
                                            Leaf("total_spent", "greater_than", Num(10000)) >>]
  /\ requests[1].pc = "sample"
  /\ buildSegmentQuery(requests[1].rules).query =
       << "(", "status = ?", " OR ", "total_spent > ?", ")" >>

\* The leaves of a rule tree.
LeavesOf(rules) == { rule \in Subtrees(rules) : ~IsComposite(rule) }

\* The value of a leaf has the shape the operator table gives for its field
\* and operator; the shape of is_null is none, with or without a value.
HasTableShape(rule) ==
  \/ rule.field = "last_visit" /\ rule.operator = "is_null"
  \/ /\ "value" \in DOMAIN rule
     /\ ValueFits(rule.field, rule.operator, rule.value)

\* C23: a leaf compiles to a comparison exactly when its field and operator
\* are in the operator table and its value has the table's shape, to ''
\* otherwise; last_visit is_null without a value compiles to last_visit IS
\* NULL with no parameter.
C23_LeafCompilesIffInTable ==
  \A rules \in CompiledRules : \A rule \in LeavesOf(rules) :
    /\ processRule(rule).sql # Empty <=>
         (<<rule.field, rule.operator>> \in OperatorTable /\ HasTableShape(rule))
    /\ rule = [field |-> "last_visit", operator |-> "is_null"] =>
         processRule(rule) = Compiled(<<"last_visit IS NULL">>, << >>)

\* The rule trees the requests have carried.
RequestRules == { requests[h].rules : h \in DOMAIN requests } \ {undefined}

\* A leaf of the operator table that carries a value of another shape than
\* the table's.
Misshapen(rule) ==
  /\ <<rule.field, rule.operator>> \in OperatorTable
  /\ "value" \in DOMAIN rule
  /\ ~ValueFits(rule.field, rule.operator, rule.value)

\* C24: a leaf whose value does not have the shape of its operator compiles
\* to '' with no parameter, and compiling it raises no error.
C24_MisshapenLeafIsEmpty ==
  \A rules \in RequestRules : \A rule \in LeavesOf(rules) :
    Misshapen(rule) =>
      /\ ~Throws(rule)
      /\ processRule(rule) = Compiled(Empty, << >>)

\* C25: a campaign in status 'sent' has no message in status 'pending'.
C25_SentHasNoPending ==
  \A c \in DOMAIN campaigns :
    campaigns[c].status = "sent" => MessagesIn(communication_log, c, {"pending"}) = {}

\* C26: a step of a delivery receipt request leaves the status and sent_at
\* of every campaign in status 'failed' as they are.
C26_FailedIsTerminal ==
  [][\A h \in DOMAIN handlers :
       handlers'[h] # handlers[h] =>
         \A c \in DOMAIN campaigns :
           campaigns[c].status = "failed" =>
             /\ c \in DOMAIN campaigns'
             /\ campaigns'[c].status = "failed"
             /\ campaigns'[c].sent_at = campaigns[c].sent_at]_vars

\* C27: a step of a delivery receipt request adds and removes no message,
\* changes no message but the one of the receipt and no campaign but the one
\* that message belongs to; a request for a message id that does not exist
\* ends at its lookup and changes no table.
C27_ReceiptTouchesOwnCampaign ==
  [][\A h \in DOMAIN handlers :
       /\ handlers'[h] # handlers[h] =>
            /\ DOMAIN communication_log' = DOMAIN communication_log
            /\ \A m \in DOMAIN communication_log :
                 m # handlers[h].message_id => communication_log'[m] = communication_log[m]
            /\ DOMAIN campaigns' = DOMAIN campaigns
            /\ \A c \in DOMAIN campaigns :
                 c # handlers[h].campaign_id => campaigns'[c] = campaigns[c]
            /\ handlers'[h].pc = "update" =>
                 handlers'[h].campaign_id =
                   communication_log[handlers'[h].message_id].campaign_id
       /\ \A m \in MessageIds \ DOMAIN communication_log, st \in ReceiptStatuses :
            ReceiptLookup(h, m, st, NULL, TRUE, MaxReceiptsTwo) =>
              handlers' = handlers /\ UNCHANGED tables]_vars

\* A receipt for a message of the first campaign has been applied and has
\* marked that campaign, while the second campaign, with a message of its
\* own, is being sent.
C27_Witness ==
  /\ DOMAIN campaigns = {1, 2}
  /\ receipts = 1
  /\ campaigns[1].sent_writes = 2
  /\ campaigns[2].status = "sending"
  /\ \E m \in DOMAIN communication_log : communication_log[m].campaign_id = 2
  /\ \E m \in DOMAIN communication_log :
       communication_log[m].campaign_id = 1 /\ communication_log[m].status = "delivered"

\* C28: the compiler of the segments routes and the compiler of
\* sendCampaignMessages return the same expression and the same parameters
\* for a rule tree, and the customers the dispatch query selects with them
\* are those a preview on the same customers has counted and sampled.
C28_CompilersAgree ==
  /\ \A rules \in CompiledRules : routeBuildSegmentQuery(rules) = buildSegmentQuery(rules)
  /\ \A h \in DOMAIN requests :
       Previewed(h) =>
         LET found == Matching(buildSegmentQuery(requests[h].rules), customers, now)
         IN /\ Range(requests[h].sampleCustomers) = found
            /\ requests[h].audienceSize = Cardinality(found)

\* A preview of (status = active OR total_spent > 10000) has been answered
\* with the customers 1, 2 and 3, which the dispatch query selects too.
C28_Witness ==
  /\ Previewed(1)
  /\ requests[1].rules = [operator |-> "OR",
                          conditions |-> << Leaf("status", "equals", Str("active")),
                                            Leaf("total_spent", "greater_than", Num(10000)) >>]
  /\ requests[1].audienceSize = 3
  /\ Matching(buildSegmentQuery(requests[1].rules), customers, now) = {1, 2, 3}

\* C29: the expression buildSegmentQuery returns has as many `?` as the
\* parameter list has values, and a leaf that compiles to '' has pushed no
\* value.
C29_PlaceholdersMatchParams ==
  \A rules \in CompiledRules :
    LET q == buildSegmentQuery(rules)
        ts == Comparisons(q.query)
    IN /\ PlaceholdersBefore(ts, Len(ts)) = Len(q.params)
       /\ \A rule \in LeavesOf(rules) :
            processRule(rule).sql = Empty => processRule(rule).params = << >>

\* Compiled: a tree of a dropped leaf, a leaf with two placeholders whose
\* value lacks max, and nothing else -- two `?`, two values.
C29_Witness ==
  /\ requests[1].rules = [operator |-> "AND",
                          conditions |-> << Leaf("status", "greater_than", Str("active")),
                                            Leaf("total_spent", "between",
                                                 Obj([min |-> Num(1000)])) >>]
  /\ requests[1].pc = "sample"
  /\ buildSegmentQuery(requests[1].rules) =
       [query |-> << "(", "total_spent BETWEEN ? AND ?", ")" >>, params |-> << Num(1000), NaN >>]

\* sendCampaignMessages call c has settled.
Terminated(c) == c \in DOMAIN dispatch /\ dispatch[c].pc \in {"resolved", "rejected"}

\* C30 as stated: a campaign that has been created is eventually 'sent' or
\* 'failed', its sendCampaignMessages call settled.
C30_EventuallySentOrFailed ==
  \A c \in 1 .. MaxCampaignId :
    (c \in DOMAIN campaigns) ~>
      (Terminated(c) /\ c \in DOMAIN campaigns /\ campaigns[c].status \in {"sent", "failed"})

\* C30: the sendCampaignMessages call of a campaign that has been created
\* eventually settles, and then the campaign is 'sent' or 'failed' unless
\* the deletion of its segment has removed its row.
C30_EventuallyLeavesSending ==
  \A c \in 1 .. MaxCampaignId :
    (c \in DOMAIN campaigns) ~>
      (Terminated(c) /\ (c \in DOMAIN campaigns => campaigns[c].status \in {"sent", "failed"}))

\* A campaign whose segment matched no customer has been dispatched to the
\* end with no message and no receipt, and is 'sent'.
C30_Witness ==
  \E c \in DOMAIN campaigns :
    /\ Terminated(c)
    /\ campaigns[c].status = "sent"
    /\ MessagesOf(communication_log, c) = {}
    /\ autoIncrement.communication_log = 1
    /\ receipts = 0

====
